---- MODULE Spec2Model ----
(***************************************************************************)
(* DiskExecutionEnv (gpt_engineer/core/default/disk_execution_env.py):     *)
(* the polling loop of run, the child process it supervises, the two OS    *)
(* pipes between them, the wall clock and the operator's interruption;     *)
(* the upload / popen / run lifecycle of one environment; and the          *)
(* CodeVectorRepository (tools/experimental/code_vector_repository.py).    *)
(*                                                                         *)
(* Text is modelled line by line: a line is the index it has in the        *)
(* child's program, a Python string is the sequence of its lines, "" is    *)
(* <<>> and += is \o.  A Python Optional is a set: None is {} and the      *)
(* value v is {v}.                                                         *)
(***************************************************************************)
EXTENDS Integers, Sequences, FiniteSets, TLC

\* ---------------------------------------------------------------- bounds
MaxLines == 3
PipeCap == 2
MaxTime == 3
MaxTimeout == 2
MaxChildren == 2

\* ------------------------------------------------------ program constants
SIGKILL == 9

\* -------------------------------------------------------------- Optional
None == {}
Some(v) == {v}
Val(o) == CHOOSE v \in o : TRUE

Streams == {"out", "err"}
ExitCodes == {0, 7}
Programs == UNION {[1..n -> Streams] : n \in 0..MaxLines}
Timeouts == {None} \cup {Some(t) : t \in 0..MaxTimeout}
\* what the child does once it has written its lines: exit with a code, or
\* never exit (None)
ChildExits == {None} \cup {Some(c) : c \in ExitCodes}

\* ------------------------------------------------- the environment's files
Cwds == {"working_dir", "caller_cwd"}
Paths == {"a", "b"}
Contents == {1, 2}
FilesDicts == UNION {[P -> Contents] : P \in SUBSET Paths}

VARIABLES
    command,      \* the lines the child writes, each to "out" or "err"
    childExit,    \* the exit code the command ends with, None: it never ends
    timeout,      \* run's timeout argument
    cpos,         \* how many lines the child has written
    cstatus,      \* the child's wait status: None while it runs
    outPipe,      \* p.stdout: lines written and not yet read
    errPipe,      \* p.stderr
    pc,           \* the line run is at
    start,        \* start
    stdout,       \* stdout, the line last read from p.stdout
    stderr,       \* stderr
    stdout_full,  \* stdout_full
    stderr_full,  \* stderr_full
    returncode,   \* p.returncode
    console,      \* what run has printed: lines echoed and notices
    outcome,      \* "running", "returned" or "timeout" (TimeoutError raised)
    result,       \* the tuple run returned, None when it returned nothing
    now,          \* time.time()
    interrupted,  \* KeyboardInterrupt was raised in the try block
    accAtInt,     \* stdout_full, stderr_full as they were when it was raised
    fs,           \* the files of each directory
    uploaded,     \* the FilesDict of the most recent upload
    children,     \* the processes the environment started: cwd and files seen
    exitTime,     \* time.time() when the child ended on its own, None before
    index,        \* CodeVectorRepository._index
    query_engine, \* _query_engine: the index it was built from
    retriever,    \* _retriever: the index it was built from
    loads,        \* how many load_from_directory calls have completed
    lastCall      \* the last call on the repository and how it ended

runVars == <<command, childExit, timeout, cpos, cstatus, outPipe, errPipe, pc,
             start, stdout, stderr, stdout_full, stderr_full, returncode,
             console, outcome, result, now, interrupted, accAtInt, exitTime>>
envVars == <<fs, uploaded, children>>
repoVars == <<index, query_engine, retriever, loads, lastCall>>
vars == <<runVars, envVars, repoVars>>

\* ------------------------------------------------------------ the child
Running == cstatus = None

\* the lines the child has written so far to stream s, in order
RECURSIVE LinesOf(_, _, _)
LinesOf(prog, n, s) ==
    IF n = 0 THEN <<>>
    ELSE IF prog[n] = s THEN Append(LinesOf(prog, n - 1, s), n)
         ELSE LinesOf(prog, n - 1, s)

Written(s) == LinesOf(command, cpos, s)
AllLines(s) == LinesOf(command, Len(command), s)

\* the child writes its next line: write(2) blocks while the pipe is full
ChildWrite ==
    /\ pc # "popen"
    /\ Running
    /\ cpos < Len(command)
    /\ \/ /\ command[cpos + 1] = "out"
          /\ Len(outPipe) < PipeCap
          /\ outPipe' = Append(outPipe, cpos + 1)
          /\ UNCHANGED errPipe
       \/ /\ command[cpos + 1] = "err"
          /\ Len(errPipe) < PipeCap
          /\ errPipe' = Append(errPipe, cpos + 1)
          /\ UNCHANGED outPipe
    /\ cpos' = cpos + 1
    /\ UNCHANGED <<command, childExit, timeout, cstatus, pc, start, stdout,
                   stderr, stdout_full, stderr_full, returncode, console,
                   outcome, result, now, interrupted, accAtInt,
                   exitTime, envVars, repoVars>>

\* the child ends on its own, after its last line
ChildExit ==
    /\ pc # "popen"
    /\ Running
    /\ cpos = Len(command)
    /\ childExit # None
    /\ cstatus' = childExit
    /\ exitTime' = Some(now)
    /\ UNCHANGED <<command, childExit, timeout, cpos, outPipe, errPipe, pc,
                   start, stdout, stderr, stdout_full, stderr_full,
                   returncode, console, outcome, result, now, interrupted,
                   accAtInt, envVars, repoVars>>

\* ------------------------------------------------- subprocess primitives
\* Popen.poll(): p.returncode after it; a child that ended is reaped
PollCode == IF returncode = None THEN cstatus ELSE returncode

\* Popen.kill() = send_signal(SIGKILL): polls first and signals only a child
\* not known to have ended; the signal does not set p.returncode
KillStatus == IF Running THEN Some(0 - SIGKILL) ELSE cstatus

\* readline() on a pipe: enabled when a line is there or the writer is gone
CanRead(pipe) == pipe # <<>> \/ ~Running
ReadLine(pipe) == IF pipe # <<>> THEN <<Head(pipe)>> ELSE <<>>
Rest(pipe) == IF pipe # <<>> THEN Tail(pipe) ELSE pipe

\* ------------------------------------------------------------------- run
\* print(): a line of the child echoed, or a notice of run itself
Echo(line) == [kind |-> "echo", line |-> line]
Say(text) == [kind |-> text, line |-> 0]

TryPcs == {"poll", "read_out", "read_err", "print_out", "append_out",
           "print_err", "append_err", "check", "kill", "raise"}

\* Python truth of the timeout argument
Truthy(t) == t # None /\ Val(t) # 0

\* line 114: if timeout and time.time() - start > timeout
TimedOut == Truthy(timeout) /\ now - start > Val(timeout)

\* a variant of ReturnValue that reports only success or failure
ReturnValue_Remapped ==
    <<stdout_full, stderr_full,
      IF returncode \in {None, Some(0)} THEN returncode ELSE Some(1)>>

\* line 126
ReturnValue == <<stdout_full, stderr_full, returncode>>

\* lines 88-100
Popen ==
    /\ pc = "popen"
    /\ start' = now
    /\ pc' = "poll"
    /\ console' = Append(console, Say("--- Start of run ---"))
    /\ UNCHANGED <<command, childExit, timeout, cpos, cstatus, outPipe,
                   errPipe, stdout, stderr, stdout_full, stderr_full,
                   returncode, outcome, result, now, interrupted, accAtInt,
                   exitTime, envVars, repoVars>>

\* line 103: while p.poll() is None
Poll ==
    /\ pc = "poll"
    /\ returncode' = PollCode
    /\ pc' = IF PollCode = None THEN "read_out" ELSE "return"
    /\ UNCHANGED <<command, childExit, timeout, cpos, cstatus, outPipe,
                   errPipe, start, stdout, stderr, stdout_full, stderr_full,
                   console, outcome, result, now, interrupted, accAtInt,
                   exitTime, envVars, repoVars>>

\* line 106: stdout = p.stdout.readline()
ReadOut ==
    /\ pc = "read_out"
    /\ CanRead(outPipe)
    /\ stdout' = ReadLine(outPipe)
    /\ outPipe' = Rest(outPipe)
    /\ pc' = "read_err"
    /\ UNCHANGED <<command, childExit, timeout, cpos, cstatus, errPipe,
                   start, stderr, stdout_full, stderr_full, returncode,
                   console, outcome, result, now, interrupted, accAtInt,
                   exitTime, envVars, repoVars>>

\* line 107: stderr = p.stderr.readline()
ReadErr ==
    /\ pc = "read_err"
    /\ CanRead(errPipe)
    /\ stderr' = ReadLine(errPipe)
    /\ errPipe' = Rest(errPipe)
    /\ pc' = "print_out"
    /\ UNCHANGED <<command, childExit, timeout, cpos, cstatus, outPipe,
                   start, stdout, stdout_full, stderr_full, returncode,
                   console, outcome, result, now, interrupted, accAtInt,
                   exitTime, envVars, repoVars>>

\* lines 108-109: if stdout: print(stdout, end="")
PrintOut ==
    /\ pc = "print_out"
    /\ IF stdout # <<>>
       THEN console' = Append(console, Echo(stdout[1])) /\ pc' = "append_out"
       ELSE console' = console /\ pc' = "print_err"
    /\ UNCHANGED <<command, childExit, timeout, cpos, cstatus, outPipe,
                   errPipe, start, stdout, stderr, stdout_full, stderr_full,
                   returncode, outcome, result, now, interrupted, accAtInt,
                   exitTime, envVars, repoVars>>

\* a variant of AppendOut that adds the line to the other buffer
AppendOut_ToErr ==
    /\ pc = "append_out"
    /\ stderr_full' = stderr_full \o stdout
    /\ pc' = "print_err"
    /\ UNCHANGED <<command, childExit, timeout, cpos, cstatus, outPipe,
                   errPipe, start, stdout, stderr, stdout_full, returncode,
                   console, outcome, result, now, interrupted, accAtInt,
                   exitTime, envVars, repoVars>>

\* line 110: stdout_full += stdout
AppendOut ==
    /\ pc = "append_out"
    /\ stdout_full' = stdout_full \o stdout
    /\ pc' = "print_err"
    /\ UNCHANGED <<command, childExit, timeout, cpos, cstatus, outPipe,
                   errPipe, start, stdout, stderr, stderr_full, returncode,
                   console, outcome, result, now, interrupted, accAtInt,
                   exitTime, envVars, repoVars>>

\* lines 111-112: if stderr: print(stderr, end="")
PrintErr ==
    /\ pc = "print_err"
    /\ IF stderr # <<>>
       THEN console' = Append(console, Echo(stderr[1])) /\ pc' = "append_err"
       ELSE console' = console /\ pc' = "check"
    /\ UNCHANGED <<command, childExit, timeout, cpos, cstatus, outPipe,
                   errPipe, start, stdout, stderr, stdout_full, stderr_full,
                   returncode, outcome, result, now, interrupted, accAtInt,
                   exitTime, envVars, repoVars>>

\* line 113: stderr_full += stderr
AppendErr ==
    /\ pc = "append_err"
    /\ stderr_full' = stderr_full \o stderr
    /\ pc' = "check"
    /\ UNCHANGED <<command, childExit, timeout, cpos, cstatus, outPipe,
                   errPipe, start, stdout, stderr, stdout_full, returncode,
                   console, outcome, result, now, interrupted, accAtInt,
                   exitTime, envVars, repoVars>>

\* line 114
Check ==
    /\ pc = "check"
    /\ pc' = IF TimedOut THEN "kill" ELSE "poll"
    /\ UNCHANGED <<command, childExit, timeout, cpos, cstatus, outPipe,
                   errPipe, start, stdout, stderr, stdout_full, stderr_full,
                   returncode, console, outcome, result, now, interrupted,
                   accAtInt, exitTime, envVars, repoVars>>

\* a variant of TimeoutKill that raises without p.kill()
TimeoutKill_NoKill ==
    /\ pc = "kill"
    /\ console' = Append(console, Say("Timeout!"))
    /\ pc' = "raise"
    /\ UNCHANGED <<command, childExit, timeout, cpos, cstatus, outPipe,
                   errPipe, start, stdout, stderr, stdout_full, stderr_full,
                   returncode, outcome, result, now, interrupted, accAtInt,
                   exitTime, envVars, repoVars>>

\* lines 115-116: print("Timeout!"); p.kill()
TimeoutKill ==
    /\ pc = "kill"
    /\ console' = Append(console, Say("Timeout!"))
    /\ returncode' = PollCode
    /\ cstatus' = KillStatus
    /\ pc' = "raise"
    /\ UNCHANGED <<command, childExit, timeout, cpos, outPipe, errPipe,
                   start, stdout, stderr, stdout_full, stderr_full, outcome,
                   result, now, interrupted, accAtInt,
                   exitTime, envVars, repoVars>>

\* line 117: raise TimeoutError()
Raise ==
    /\ pc = "raise"
    /\ outcome' = "timeout"
    /\ pc' = "done"
    /\ UNCHANGED <<command, childExit, timeout, cpos, cstatus, outPipe,
                   errPipe, start, stdout, stderr, stdout_full, stderr_full,
                   returncode, console, result, now, interrupted, accAtInt,
                   exitTime, envVars, repoVars>>

\* the operator interrupts: KeyboardInterrupt is raised at whatever line of
\* the try block (lines 102-117) run is at, and caught at line 118
Interrupt ==
    /\ pc \in TryPcs
    /\ pc' = "except"
    /\ interrupted' = TRUE
    /\ accAtInt' = <<stdout_full, stderr_full>>
    /\ UNCHANGED <<command, childExit, timeout, cpos, cstatus, outPipe,
                   errPipe, start, stdout, stderr, stdout_full, stderr_full,
                   returncode, console, outcome, result, now,
                   exitTime, envVars, repoVars>>

\* a variant of Except that emits the notice without p.kill()
Except_NoKill ==
    /\ pc = "except"
    /\ console' = Append(console, Say("Execution stopped."))
    /\ pc' = "return"
    /\ UNCHANGED <<command, childExit, timeout, cpos, cstatus, outPipe,
                   errPipe, start, stdout, stderr, stdout_full, stderr_full,
                   returncode, outcome, result, now, interrupted, accAtInt,
                   exitTime, envVars, repoVars>>

\* lines 119-124: the notice, p.kill()
Except ==
    /\ pc = "except"
    /\ console' = Append(console, Say("Execution stopped."))
    /\ returncode' = PollCode
    /\ cstatus' = KillStatus
    /\ pc' = "return"
    /\ UNCHANGED <<command, childExit, timeout, cpos, outPipe, errPipe,
                   start, stdout, stderr, stdout_full, stderr_full, outcome,
                   result, now, interrupted, accAtInt,
                   exitTime, envVars, repoVars>>

\* line 126: return stdout_full, stderr_full, p.returncode
Return ==
    /\ pc = "return"
    /\ result' = Some(ReturnValue)
    /\ outcome' = "returned"
    /\ pc' = "done"
    /\ UNCHANGED <<command, childExit, timeout, cpos, cstatus, outPipe,
                   errPipe, start, stdout, stderr, stdout_full, stderr_full,
                   returncode, console, now, interrupted, accAtInt,
                   exitTime, envVars, repoVars>>

\* the wall clock advances while run is in progress
Tick ==
    /\ pc # "done"
    /\ now < MaxTime
    /\ now' = now + 1
    /\ UNCHANGED <<command, childExit, timeout, cpos, cstatus, outPipe,
                   errPipe, pc, start, stdout, stderr, stdout_full,
                   stderr_full, returncode, console, outcome, result,
                   interrupted, accAtInt, exitTime, envVars, repoVars>>

\* --------------------------------------------------- CodeVectorRepository
\* (gpt_engineer/tools/experimental/code_vector_repository.py)
MaxLoads == 3

Directories == {"dir_a", "dir_b", "missing"}
Queries == {"q1", "q2"}

\* lines 38-49: SimpleDirectoryReader raises on a directory it cannot read
Readable(d) == d # "missing"

NotLoaded == "ValueError: Index has not been loaded yet."
ReaderError == "ValueError: directory cannot be read"
NoError == ""

\* line 62: VectorStoreIndex.from_documents(...): a new index object per
\* load, holding the documents of the directory as they were at that load
NewIndex(n, d) == [load |-> n, dir |-> d]

\* a variant of IndexMissing that tests the query engine instead of the index
IndexMissing_Engine == query_engine = None

\* lines 69 and 86: if self._index is None
IndexMissing == index = None

\* lines 72-75: the engine is built only when none is cached
EngineFor(ix) == IF query_engine = None THEN ix ELSE query_engine

\* lines 89-92: the retriever is built only when none is cached
RetrieverFor(ix) == IF retriever = None THEN ix ELSE retriever

Call(op, arg, raised, from) ==
    [op |-> op, arg |-> arg, raised |-> raised, from |-> from,
     current |-> index, loadsBefore |-> loads]

\* lines 51-62: load_from_directory
LoadFromDirectory ==
    /\ loads < MaxLoads
    /\ \E d \in Directories :
          IF Readable(d)
          THEN /\ index' = Some(NewIndex(loads + 1, d))
               /\ loads' = loads + 1
               /\ lastCall' = Call("load", d, NoError, None)
          ELSE /\ lastCall' = Call("load", d, ReaderError, None)
               /\ UNCHANGED <<index, loads>>
    /\ UNCHANGED <<query_engine, retriever, runVars, envVars>>

\* lines 64-77: query
Query ==
    /\ \E q \in Queries :
          IF IndexMissing
          THEN /\ lastCall' = Call("query", q, NotLoaded, None)
               /\ UNCHANGED query_engine
          ELSE /\ query_engine' = EngineFor(index)
               /\ lastCall' = Call("query", q, NoError, query_engine')
    /\ UNCHANGED <<index, retriever, loads, runVars, envVars>>

\* lines 79-94: relevent_code_chunks
ReleventCodeChunks ==
    /\ \E q \in Queries :
          IF IndexMissing
          THEN /\ lastCall' = Call("chunks", q, NotLoaded, None)
               /\ UNCHANGED retriever
          ELSE /\ retriever' = RetrieverFor(index)
               /\ lastCall' = Call("chunks", q, NoError, retriever')
    /\ UNCHANGED <<index, query_engine, loads, runVars, envVars>>

\* lines 30-36: __init__
InitRepo ==
    /\ index = None
    /\ query_engine = None
    /\ retriever = None
    /\ loads = 0
    /\ lastCall = [op |-> "init", arg |-> "", raised |-> NoError,
                   from |-> None, current |-> None, loadsBefore |-> 0]

NextRepo ==
    \/ LoadFromDirectory
    \/ Query
    \/ ReleventCodeChunks

\* ------------------------------------------- upload / popen / run lifecycle
\* a directory: the content of each path it holds
NoFiles == [p \in {} |-> 0]

\* FileStore.upload(files): every file of the collection is written under
\* the directory; files already there and not in the collection stay
StoreUpload(dir, files) ==
    [p \in DOMAIN dir \cup DOMAIN files |->
        IF p \in DOMAIN files THEN files[p] ELSE dir[p]]

\* self.store.working_dir
StoreWorkingDir == "working_dir"

\* a variant of PopenCwd without the cwd argument: the caller's directory
PopenCwd_Inherited == "caller_cwd"

\* cwd=self.store.working_dir, in popen (line 81) and in run (line 95)
PopenCwd == StoreWorkingDir

\* the process Popen starts: where it is rooted and the files it finds there
ChildOf(kind) ==
    [kind |-> kind, cwd |-> PopenCwd, seen |-> fs[PopenCwd], upl |-> uploaded]

\* lines 70-72: self.store.upload(files); return self
Upload ==
    /\ \E files \in FilesDicts :
          /\ fs' = [fs EXCEPT ![StoreWorkingDir] = StoreUpload(@, files)]
          /\ uploaded' = files
    /\ UNCHANGED <<runVars, children, repoVars>>

\* lines 77-85: popen returns the process without waiting for it
EnvPopen ==
    /\ Cardinality(children) < MaxChildren
    /\ children' = children \cup {ChildOf("popen")}
    /\ UNCHANGED <<runVars, fs, uploaded, repoVars>>

\* lines 87-98: run starts its child the same way (its loop is Spec's)
EnvRun ==
    /\ Cardinality(children) < MaxChildren
    /\ children' = children \cup {ChildOf("run")}
    /\ UNCHANGED <<runVars, fs, uploaded, repoVars>>

InitEnv ==
    /\ fs = [d \in Cwds |-> NoFiles]
    /\ uploaded = NoFiles
    /\ children = {}

InitIdle ==
    /\ command = <<>>
    /\ childExit = Some(0)
    /\ timeout = None
    /\ cpos = 0
    /\ cstatus = None
    /\ outPipe = <<>>
    /\ errPipe = <<>>
    /\ pc = "popen"
    /\ start = 0
    /\ stdout = <<>>
    /\ stderr = <<>>
    /\ stdout_full = <<>>
    /\ stderr_full = <<>>
    /\ returncode = None
    /\ console = <<>>
    /\ outcome = "running"
    /\ result = None
    /\ now = 0
    /\ interrupted = FALSE
    /\ accAtInt = <<>>
    /\ exitTime = None

NextEnv ==
    \/ Upload
    \/ EnvPopen
    \/ EnvRun

EnvInit == InitIdle /\ InitEnv /\ InitRepo

EnvSpec == EnvInit /\ [][NextEnv]_vars

RepoInit == InitIdle /\ InitEnv /\ InitRepo

RepoSpec == RepoInit /\ [][NextRepo]_vars

\* ------------------------------------------------------- specifications
InitRun ==
    /\ command \in Programs
    /\ childExit \in ChildExits
    /\ timeout \in Timeouts
    /\ cpos = 0
    /\ cstatus = None
    /\ outPipe = <<>>
    /\ errPipe = <<>>
    /\ pc = "popen"
    /\ start = 0
    /\ stdout = <<>>
    /\ stderr = <<>>
    /\ stdout_full = <<>>
    /\ stderr_full = <<>>
    /\ returncode = None
    /\ console = <<>>
    /\ outcome = "running"
    /\ result = None
    /\ now = 0
    /\ interrupted = FALSE
    /\ accAtInt = <<>>
    /\ exitTime = None

Init == InitRun /\ InitEnv /\ InitRepo

Next ==
    \/ ChildWrite
    \/ ChildExit
    \/ Popen
    \/ Poll
    \/ ReadOut
    \/ ReadErr
    \/ PrintOut
    \/ AppendOut
    \/ PrintErr
    \/ AppendErr
    \/ Check
    \/ TimeoutKill
    \/ Raise
    \/ Interrupt
    \/ Except
    \/ Return
    \/ Tick

Spec == Init /\ [][Next]_vars

\* ------------------------------------------------------------ properties
IsPrefix(a, b) == Len(a) <= Len(b) /\ a = SubSeq(b, 1, Len(a))

Finished == pc = "done"
Notice == \E i \in 1..Len(console) : console[i] = Say("Execution stopped.")

\* run is in a readline() of stream s that cannot return: nothing is in the
\* pipe and the child still holds its write end
BlockedReading(s) ==
    /\ Running
    /\ \/ s = "out" /\ pc = "read_out" /\ outPipe = <<>>
       \/ s = "err" /\ pc = "read_err" /\ errPipe = <<>>

\* the child is in a write(2) to stream s that cannot return: the pipe is full
BlockedWriting(s) ==
    /\ Running
    /\ cpos < Len(command)
    /\ command[cpos + 1] = s
    /\ \/ s = "out" /\ Len(outPipe) = PipeCap
       \/ s = "err" /\ Len(errPipe) = PipeCap

\* the child will take no further step: all lines written, and it never exits
ChildIdleForever == Running /\ cpos = Len(command) /\ childExit = None

\* C1: with no timeout and no interruption, for a child that writes its
\* lines and exits, what run returns is all the lines written to stdout, all
\* the lines written to stderr and the child's exit code.
C1_AllOutputReturned ==
    (outcome = "returned" /\ timeout = None /\ ~interrupted)
        => result = Some(<<AllLines("out"), AllLines("err"), childExit>>)

\* C2: when a timeout was supplied and, at the check that ends a loop
\* iteration, the elapsed time exceeds it with the child still running, run
\* goes on to kill the child and raise TimeoutError (unless the operator
\* interrupts first); and once TimeoutError is raised the child has been
\* killed and no ExecutionResult exists.
C2_TimeoutKillsThenFails ==
    /\ [](outcome = "timeout" => (result = None /\ ~Running))
    /\ [][(/\ pc = "check"
           /\ timeout # None
           /\ now - start > Val(timeout)
           /\ Running
           /\ pc' # pc
           /\ ~interrupted') => pc' = "kill"]_vars

\* C3: with a timeout supplied, run is never stuck past the timeout in a
\* read that cannot return, waiting for a child that will neither write nor
\* exit.
C3_NeverBlockedPastTimeout ==
    ~(/\ timeout # None
      /\ now - start > Val(timeout)
      /\ ChildIdleForever
      /\ (BlockedReading("out") \/ BlockedReading("err")))

\* C4: after an interruption raised in the polling loop run never raises:
\* it goes through the handler, which emits the notice and kills the child,
\* and returns the two buffers exactly as they were when the interruption
\* arrived.
C4_InterruptReturnsPartial ==
    interrupted =>
        /\ pc \in {"except", "return", "done"}
        /\ outcome # "timeout"
        /\ <<stdout_full, stderr_full>> = accAtInt
        /\ pc \in {"return", "done"} => (Notice /\ ~Running)
        /\ Finished =>
              /\ outcome = "returned"
              /\ result # None
              /\ <<Val(result)[1], Val(result)[2]>> = accAtInt

C4_Witness ==
    /\ Finished
    /\ interrupted
    /\ cstatus = Some(0 - SIGKILL)
    /\ accAtInt[1] # <<>>
    /\ accAtInt[2] # <<>>
    /\ Len(accAtInt[1]) < Len(AllLines("out"))

\* C5: the third component of every tuple run returns is an integer, never
\* None.
C5_ExitCodeIsInteger ==
    outcome = "returned" => (result # None /\ Val(result)[3] # None)

\* C6: whenever run has finished (returned or raised TimeoutError) its child
\* is no longer running.
C6_NoChildOutlivesRun == Finished => ~Running

C6_Witness ==
    /\ Finished
    /\ outcome = "timeout"
    /\ ~interrupted
    /\ cstatus = Some(0 - SIGKILL)

\* C7: when run finishes with neither the timeout nor an interruption
\* having fired, the child has exited on its own and run has returned (not
\* raised) a tuple whose exit code is exactly the child's, zero or not.
C7_ExitCodePassedThrough ==
    (Finished /\ ~interrupted /\ outcome # "timeout") =>
        /\ outcome = "returned"
        /\ childExit # None
        /\ cstatus = childExit
        /\ result # None
        /\ Val(result)[3] = childExit

C7_Witness ==
    /\ Finished
    /\ ~interrupted
    /\ outcome = "returned"
    /\ Val(result)[3] = Some(7)
    /\ Val(result)[1] # <<>>
    /\ timeout # None

\* C8: every process started by run or popen is rooted at the store's
\* working directory and finds there every file of the most recent upload,
\* with the uploaded content.
C8_ChildSeesLastUpload ==
    \A c \in children :
        /\ c.cwd = StoreWorkingDir
        /\ DOMAIN c.upl \subseteq DOMAIN c.seen
        /\ \A p \in DOMAIN c.upl : c.seen[p] = c.upl[p]

C8_Witness ==
    \E c \in children, d \in children :
        /\ c.kind = "run"
        /\ d.kind = "popen"
        /\ DOMAIN c.upl = Paths
        /\ c.upl # d.upl
        /\ DOMAIN d.upl # DOMAIN d.seen

\* C9: with no timeout, for a child that exits once its writes are
\* accepted, run is never blocked reading one stream while the child is
\* blocked writing to the full pipe of the other.
C9_NoPipeDeadlock ==
    ~(/\ timeout = None
      /\ childExit # None
      /\ \/ BlockedReading("out") /\ BlockedWriting("err")
         \/ BlockedReading("err") /\ BlockedWriting("out"))

\* C10: the stdout buffer is always a prefix of the lines the child has
\* written to stdout and the stderr buffer a prefix of those written to
\* stderr; a step takes at most one line from a pipe, from stdout only at
\* line 106 and from stderr only at line 107, which follows it; a buffer
\* grows only by the line just read from its own stream.
C10_BuffersArePrefixes ==
    /\ [](/\ IsPrefix(stdout_full, Written("out"))
          /\ IsPrefix(stderr_full, Written("err")))
    /\ [][/\ Len(outPipe') < Len(outPipe) =>
                /\ pc = "read_out" /\ pc' = "read_err"
                /\ Len(outPipe') = Len(outPipe) - 1
          /\ Len(errPipe') < Len(errPipe) =>
                /\ pc = "read_err" /\ pc' = "print_out"
                /\ Len(errPipe') = Len(errPipe) - 1
          /\ stdout_full' # stdout_full =>
                /\ pc = "append_out"
                /\ stdout_full' = stdout_full \o stdout
                /\ console[Len(console)] = Echo(stdout[1])
          /\ stderr_full' # stderr_full =>
                /\ pc = "append_err"
                /\ stderr_full' = stderr_full \o stderr
                /\ console[Len(console)] = Echo(stderr[1])]_vars

C10_Witness ==
    /\ Len(stdout_full) = 2
    /\ Len(stderr_full) = 1
    /\ stdout_full = AllLines("out")
    /\ stderr_full = AllLines("err")
    /\ command[1] = "err"

\* C11: the check that ends a loop iteration sends run to the kill and the
\* TimeoutError exactly when a timeout value was passed, 0 included, and the
\* elapsed time exceeds it; only an absent timeout (None) disables it.
C11_EverySuppliedTimeoutChecked ==
    [][(pc = "check" /\ pc' # pc /\ ~interrupted') =>
          (pc' = "kill" <=> (timeout # None /\ now - start > Val(timeout)))]_vars

\* the child ended on its own before start + timeout
ExitedInTime ==
    /\ exitTime # None
    /\ timeout # None
    /\ Val(exitTime) - start < Val(timeout)

\* C12: when the child has exited on its own before start + timeout, run
\* never raises TimeoutError: if it finishes without an interruption it
\* returns the accumulated output and the child's exit code.
C12_NoTimeoutForCompletedChild ==
    ExitedInTime =>
        /\ outcome # "timeout"
        /\ (Finished /\ ~interrupted) =>
              result = Some(<<stdout_full, stderr_full, childExit>>)

Answering == lastCall.op \in {"query", "chunks"}

\* C13: while no load_from_directory has completed, index, query engine and
\* retriever are unset and every query or relevent_code_chunks call raises
\* ValueError("Index has not been loaded yet.") and changes none of them;
\* a call made after a completed load never raises that error.
C13_NotLoadedError ==
    /\ [](loads = 0 =>
             (index = None /\ query_engine = None /\ retriever = None))
    /\ [](Answering =>
             (lastCall.raised = NotLoaded <=> lastCall.loadsBefore = 0))
    /\ [][(loads = 0 /\ lastCall' # lastCall /\ lastCall'.op # "load") =>
             /\ lastCall'.raised = NotLoaded
             /\ UNCHANGED <<index, query_engine, retriever, loads>>]_vars

C13_Witness ==
    /\ loads = 0
    /\ lastCall.op = "chunks"
    /\ lastCall.raised = NotLoaded
    /\ index = None

\* C14: every answer of query or relevent_code_chunks comes from an engine
\* or retriever built from the index of the most recent load_from_directory.
C14_AnsweredFromLatestIndex ==
    (Answering /\ lastCall.raised = NoError) =>
        lastCall.from = lastCall.current

====
